---- MODULE Spec2Model ----
(***************************************************************************)
(* Model of app/src/main/cpp/audio_matcher.cpp: the MFCC front end         *)
(* (pre_emphasis, power_spectrum, create_mel_filterbanks, the size         *)
(* bookkeeping of extractMFCC) and the DTW aligner (cosineSimilarity,      *)
(* computeDTW).                                                            *)
(*                                                                         *)
(* `float` values are modelled as IEEE-754 binary32 numbers: a signed      *)
(* 24-bit significand and an exponent, every operation rounded to nearest, *)
(* ties to even, plus the infinities and NaN.  Inputs are small integers,  *)
(* so no operation leaves the normal exponent range; subnormals, overflow  *)
(* and the sign of zero are not modelled.                                  *)
(***************************************************************************)
EXTENDS Integers, Sequences, FiniteSets, TLC

(***************************************************************************)
(* Bounds of the model.                                                    *)
(***************************************************************************)
MaxLen == 2          \* longest feature sequence handed to computeDTW
MaxFrame == 4        \* longest frame handed to pre_emphasis
MaxFrameLen == 17    \* longest frame handed to extractMFCC / power_spectrum
MaxBin == 4          \* fft_size / 2 of the filterbanks that are built
MaxFilters == 2      \* num_filters of the filterbanks that are built

(***************************************************************************)
(* binary32 arithmetic.                                                    *)
(***************************************************************************)
MantBits == 24                  \* significand width of float
HalfBits == MantBits \div 2     \* limb width used to multiply
GuardBits == HalfBits \div 2    \* extra low bits kept while adding
DivBits == MantBits + 2         \* quotient bits produced by a division

Pow2(n) == 2 ^ n

RECURSIVE BitLen(_)
BitLen(M) == IF M = 0 THEN 0 ELSE 1 + BitLen(M \div 2)

Abs(x) == IF x < 0 THEN -x ELSE x
Sign(x) == IF x < 0 THEN -1 ELSE IF x = 0 THEN 0 ELSE 1

\* a finite float m * 2^e; m = 0 (with e = 0) or 2^23 <= |m| < 2^24
Fin(m, e) == [k |-> "fin", m |-> m, e |-> e]
Zero == Fin(0, 0)
Inf(sg) == [k |-> "inf", m |-> sg, e |-> 0]
NaN == [k |-> "nan", m |-> 0, e |-> 0]

IsNaN(a) == a.k = "nan"
IsInf(a) == a.k = "inf"
IsFin(a) == a.k = "fin"
IsZero(a) == a.k = "fin" /\ a.m = 0

\* sg * M * 2^e (M >= 0; sticky: nonzero bits were dropped below M) rounded
\* to MantBits significant bits, to nearest, ties to even
RoundPack(sg, M, e, sticky) ==
    IF M = 0 THEN Zero
    ELSE LET L == BitLen(M) IN
         IF L <= MantBits
         THEN Fin(sg * M * Pow2(MantBits - L), e - (MantBits - L))
         ELSE LET s == L - MantBits
                  q == M \div Pow2(s)
                  r == M % Pow2(s)
                  half == Pow2(s - 1)
                  up == r > half \/ (r = half /\ (sticky \/ q % 2 = 1))
                  q1 == IF up THEN q + 1 ELSE q
              IN  IF q1 = Pow2(MantBits)
                  THEN Fin(sg * Pow2(MantBits - 1), e + s + 1)
                  ELSE Fin(sg * q1, e + s)

\* static_cast<float>(n) for an int n that fits the significand
FromInt(n) == RoundPack(Sign(n), Abs(n), 0, FALSE)

FNeg(a) == IF IsNaN(a) THEN NaN ELSE [a EXCEPT !.m = -a.m]

\* a * b
FMul(a, b) ==
    IF IsNaN(a) \/ IsNaN(b) THEN NaN
    ELSE IF IsInf(a) \/ IsInf(b)
    THEN IF IsZero(a) \/ IsZero(b) THEN NaN ELSE Inf(Sign(a.m) * Sign(b.m))
    ELSE IF a.m = 0 \/ b.m = 0 THEN Zero
    ELSE LET H == Pow2(HalfBits)
             A == Abs(a.m)
             B == Abs(b.m)
             a1 == A \div H
             a0 == A % H
             b1 == B \div H
             b0 == B % H
             mid == a1 * b0 + a0 * b1
             lo == (mid % H) * H + a0 * b0
             low == lo % Pow2(MantBits)
             high == a1 * b1 + mid \div H + lo \div Pow2(MantBits)
             \* |a.m * b.m| = high * 2^MantBits + low
             M == high * 4 + low \div Pow2(MantBits - 2)
         IN  RoundPack(Sign(a.m) * Sign(b.m), M, a.e + b.e + MantBits - 2,
                       low % Pow2(MantBits - 2) # 0)

\* a + b
FAdd(a, b) ==
    IF IsNaN(a) \/ IsNaN(b) THEN NaN
    ELSE IF IsInf(a) THEN (IF IsInf(b) /\ b.m # a.m THEN NaN ELSE a)
    ELSE IF IsInf(b) THEN b
    ELSE IF a.m = 0 THEN b
    ELSE IF b.m = 0 THEN a
    ELSE LET big == IF a.e >= b.e THEN a ELSE b
             sml == IF a.e >= b.e THEN b ELSE a
             d == big.e - sml.e
         IN  IF d <= GuardBits
             THEN LET S == big.m * Pow2(d) + sml.m
                  IN  RoundPack(Sign(S), Abs(S), sml.e, FALSE)
             ELSE LET A == Abs(big.m) * Pow2(GuardBits)
                      sh == d - GuardBits
                      q == IF sh > MantBits THEN 0 ELSE Abs(sml.m) \div Pow2(sh)
                      frac == IF sh > MantBits THEN TRUE
                              ELSE Abs(sml.m) % Pow2(sh) # 0
                      same == Sign(big.m) = Sign(sml.m)
                      M == IF same THEN A + q
                           ELSE IF frac THEN A - q - 1 ELSE A - q
                  IN  RoundPack(Sign(big.m), M, big.e - GuardBits, frac)

\* a - b
FSub(a, b) == FAdd(a, FNeg(b))

\* <<floor(q0 * 2^n + r0 * 2^n / den), remainder>> by long division
RECURSIVE LongDiv(_, _, _, _)
LongDiv(q, r, den, n) ==
    IF n = 0 THEN <<q, r>>
    ELSE IF 2 * r >= den THEN LongDiv(2 * q + 1, 2 * r - den, den, n - 1)
    ELSE LongDiv(2 * q, 2 * r, den, n - 1)

\* a / b
FDiv(a, b) ==
    IF IsNaN(a) \/ IsNaN(b) THEN NaN
    ELSE IF IsInf(a) THEN (IF IsInf(b) THEN NaN
                           ELSE Inf(a.m * (IF b.m < 0 THEN -1 ELSE 1)))
    ELSE IF IsInf(b) THEN Zero
    ELSE IF b.m = 0 THEN (IF a.m = 0 THEN NaN ELSE Inf(Sign(a.m)))
    ELSE IF a.m = 0 THEN Zero
    ELSE LET A == Abs(a.m)
             B == Abs(b.m)
             qr == LongDiv(A \div B, A % B, B, DivBits)
         IN  RoundPack(Sign(a.m) * Sign(b.m), qr[1], a.e - b.e - DivBits,
                       qr[2] # 0)

\* digit-by-digit square root of the number whose base-4 digits, from the
\* top, are the npairs digits of N followed by nzero zero digits
RECURSIVE SqrtDigits(_, _, _, _, _)
SqrtDigits(root, rem, N, npairs, nzero) ==
    IF npairs = 0 /\ nzero = 0 THEN <<root, rem>>
    ELSE LET p == IF npairs > 0 THEN (N \div Pow2(2 * (npairs - 1))) % 4 ELSE 0
             r == rem * 4 + p
             t == root * 4 + 1
             np == IF npairs > 0 THEN npairs - 1 ELSE 0
             nz == IF npairs > 0 THEN nzero ELSE nzero - 1
         IN  IF r >= t THEN SqrtDigits(2 * root + 1, r - t, N, np, nz)
             ELSE SqrtDigits(2 * root, r, N, np, nz)

\* std::sqrt(a)
FSqrt(a) ==
    IF IsNaN(a) THEN NaN
    ELSE IF IsInf(a) THEN (IF a.m > 0 THEN a ELSE NaN)
    ELSE IF a.m = 0 THEN Zero
    ELSE IF a.m < 0 THEN NaN
    ELSE LET odd == a.e % 2 # 0
             N == IF odd THEN 2 * a.m ELSE a.m
             e == IF odd THEN a.e - 1 ELSE a.e
             rr == SqrtDigits(0, 0, N, HalfBits + 1, HalfBits + 2)
         IN  RoundPack(1, rr[1], (e \div 2) - (HalfBits + 2), rr[2] # 0)

\* a < b (false when either is NaN)
FLess(a, b) ==
    IF IsNaN(a) \/ IsNaN(b) THEN FALSE
    ELSE IF IsInf(a) THEN a.m < 0 /\ ~(IsInf(b) /\ b.m < 0)
    ELSE IF IsInf(b) THEN b.m > 0
    ELSE IF Sign(a.m) # Sign(b.m) THEN Sign(a.m) < Sign(b.m)
    ELSE IF a.m = 0 THEN FALSE
    ELSE IF a.m > 0 THEN a.e < b.e \/ (a.e = b.e /\ a.m < b.m)
    ELSE a.e > b.e \/ (a.e = b.e /\ a.m < b.m)

FLeq(a, b) == ~IsNaN(a) /\ ~IsNaN(b) /\ ~FLess(b, a)

\* std::min({x, y, z}): the leftmost smallest, compared with <
FMin3(x, y, z) ==
    LET xy == IF FLess(y, x) THEN y ELSE x
    IN  IF FLess(z, xy) THEN z ELSE xy

One == FromInt(1)

(***************************************************************************)
(* cosineSimilarity and computeDTW.                                        *)
(***************************************************************************)
\* the running sum of vec1[i] * vec2[i] over the first n elements, as the
\* loop of cosineSimilarity accumulates it from 0.0f
RECURSIVE Accumulate(_, _, _)
Accumulate(vec1, vec2, n) ==
    IF n = 0 THEN Zero
    ELSE FAdd(Accumulate(vec1, vec2, n - 1), FMul(vec1[n], vec2[n]))

\* cosineSimilarity dividing by norm1 * norm2, the square roots forgotten
cosineSimilarityNoSqrt(vec1, vec2) ==
    IF Len(vec1) # Len(vec2) THEN Zero
    ELSE LET dot == Accumulate(vec1, vec2, Len(vec1))
             norm1 == Accumulate(vec1, vec1, Len(vec1))
             norm2 == Accumulate(vec2, vec2, Len(vec1))
             denom == FMul(norm1, norm2)
         IN  IF IsZero(denom) THEN Zero ELSE FDiv(dot, denom)

\* cosineSimilarity without the denom == 0.0f guard
cosineSimilarityNoGuard(vec1, vec2) ==
    IF Len(vec1) # Len(vec2) THEN Zero
    ELSE LET dot == Accumulate(vec1, vec2, Len(vec1))
             norm1 == Accumulate(vec1, vec1, Len(vec1))
             norm2 == Accumulate(vec2, vec2, Len(vec1))
             denom == FMul(FSqrt(norm1), FSqrt(norm2))
         IN  FDiv(dot, denom)

cosineSimilarity(vec1, vec2) ==
    IF Len(vec1) # Len(vec2) THEN Zero
    ELSE LET dot == Accumulate(vec1, vec2, Len(vec1))
             norm1 == Accumulate(vec1, vec1, Len(vec1))
             norm2 == Accumulate(vec2, vec2, Len(vec1))
             denom == FMul(FSqrt(norm1), FSqrt(norm2))
         IN  IF IsZero(denom) THEN Zero ELSE FDiv(dot, denom)

\* float cost = 1.0f - cosineSimilarity(seq1[i - 1], seq2[j - 1])
CellCost(s1, s2, i, j) == FSub(One, cosineSimilarity(s1[i], s2[j]))

\* the cost matrix with the whole boundary row and column at 0
DpInitZeroBoundary(len1, len2) ==
    [i \in 0..len1 |-> [j \in 0..len2 |->
        IF i = 0 \/ j = 0 THEN Zero ELSE Inf(1)]]

\* dp(len1 + 1, vector<float>(len2 + 1, infinity)); dp[0][0] = 0.0f
DpInit(len1, len2) ==
    [i \in 0..len1 |-> [j \in 0..len2 |->
        IF i = 0 /\ j = 0 THEN Zero ELSE Inf(1)]]

\* the recurrence without the predecessor dp[i][j - 1]
CellValueNoLeft(d, c, i, j) ==
    FAdd(c, FMin3(d[i - 1][j], d[i - 1][j - 1], d[i - 1][j - 1]))

\* the recurrence without the diagonal predecessor dp[i - 1][j - 1]
CellValueNoDiag(d, c, i, j) ==
    FAdd(c, FMin3(d[i - 1][j], d[i][j - 1], d[i][j - 1]))

\* cost + std::min({dp[i - 1][j], dp[i][j - 1], dp[i - 1][j - 1]})
CellValue(d, c, i, j) ==
    FAdd(c, FMin3(d[i - 1][j], d[i][j - 1], d[i - 1][j - 1]))

\* return 1.0f - (dp[len1][len2] / (len1 + len2))
ScoreOf(d, len1, len2) ==
    FSub(One, FDiv(d[len1][len2], FromInt(len1 + len2)))

\* the loop position after cell (i, j): j runs 1..len2 inside i
NextCell(i, j, len2) == IF j < len2 THEN <<i, j + 1>> ELSE <<i + 1, 1>>

\* the nested loops have run to completion
LoopDone(i, len1, len2) == i > len1 \/ len2 = 0

\* the whole of computeDTW on (s1, s2), from loop position (i, j) on
RECURSIVE RunDTW(_, _, _, _, _)
RunDTW(s1, s2, d, i, j) ==
    IF LoopDone(i, Len(s1), Len(s2)) THEN ScoreOf(d, Len(s1), Len(s2))
    ELSE LET v == CellValue(d, CellCost(s1, s2, i, j), i, j)
             n == NextCell(i, j, Len(s2))
         IN  RunDTW(s1, s2, [d EXCEPT ![i][j] = v], n[1], n[2])

computeDTW(s1, s2) == RunDTW(s1, s2, DpInit(Len(s1), Len(s2)), 1, 1)

\* a vector<float> holding the given small integers
Vec(s) == [i \in 1..Len(s) |-> FromInt(s[i])]

\* the MFCC vectors the sequences are drawn from: a zero vector, vectors
\* whose cosine rounds, and one of another dimension
Vectors == {Vec(<<0, 0>>), Vec(<<1, 1>>), Vec(<<-2, -1>>), Vec(<<1>>)}

SeqsUpTo(n) == UNION {[1..k -> Vectors] : k \in 0..n}

(***************************************************************************)
(* pre_emphasis.                                                           *)
(***************************************************************************)
\* 0.95f
Alpha == Fin(15938355, -MantBits)

\* the indices the loop visits, in order, but counting up from 1
PreOrderAscending(n) == [t \in 1..(n - 1) |-> t]

\* for (size_t i = signal.size() - 1; i > 0; --i): the indices visited, in
\* order, for a signal of n >= 1 samples
PreOrder(n) == [t \in 1..(n - 1) |-> n - t]

\* signal[i] -= 0.95f * signal[i - 1]
PreUpdate(sig, i) ==
    [sig EXCEPT ![i] = FSub(sig[i], FMul(Alpha, sig[i - 1]))]

\* the sample values frames are drawn from
Samples == {FromInt(1), FromInt(-2), FromInt(3)}

(***************************************************************************)
(* power_spectrum and the sizes extractMFCC derives from it.               *)
(***************************************************************************)
\* std::vector<cd> fft_input(fft_size, 0.0); fft_input[i] = frame[i], i < n
PadFrame(fr, n, size) == [i \in 0..(size - 1) |-> IF i < n THEN fr[i] ELSE 0]

\* a power spectrum without the Nyquist bin
PowerSizeNoNyquist(size) == size \div 2

\* std::vector<double> power(fft_size / 2 + 1)
PowerSize(size) == size \div 2 + 1

\* create_mel_filterbanks(40, power.size() * 2 - 2, SAMPLE_RATE)
InferFftSize(psize) == psize * 2 - 2

\* vector<double>(fft_size / 2 + 1, 0.0): the weights of one filter
FilterSize(size) == size \div 2 + 1

IsPow2(x) == \E e \in 0..BitLen(x) : x = Pow2(e)

(***************************************************************************)
(* create_mel_filterbanks.  A weight is the quotient num * 1.0 / den of    *)
(* two ints, kept as the pair; 0.0 is 0 / 1.                               *)
(***************************************************************************)
Weight(num, den) == [num |-> num, den |-> den]
ZeroWeight == Weight(0, 1)

\* the rising weight, one bin too far up the ramp
UpWeightOffByOne(b, m, k) == Weight(k - b[m - 1] + 1, b[m] - b[m - 1])

\* (k - bin[m - 1]) * 1.0 / (bin[m] - bin[m - 1])
UpWeight(b, m, k) == Weight(k - b[m - 1], b[m] - b[m - 1])

\* the falling ramp written with the rising formula
DownWeightAsUp(b, m, k) == Weight(k - b[m], b[m + 1] - b[m])

\* (bin[m + 1] - k) * 1.0 / (bin[m + 1] - bin[m])
DownWeight(b, m, k) == Weight(b[m + 1] - k, b[m + 1] - b[m])

\* filters(num_filters, vector<double>(fft_size / 2 + 1, 0.0))
FiltersInit(nf, size) ==
    [m \in 0..(nf - 1) |-> [k \in 0..(FilterSize(size) - 1) |-> ZeroWeight]]

\* the bin arrays lines 98-111 can produce: bin[0] = 0, bin[num_filters + 1]
\* = fft_size / 2, non-decreasing in between
BinArrays(nf, size) ==
    {b \in [0..(nf + 1) -> 0..(size \div 2)] :
        /\ b[0] = 0
        /\ b[nf + 1] = size \div 2
        /\ \A x \in 0..nf : b[x] <= b[x + 1]}

VARIABLES
    pc,        \* which statement runs next
    seq1,      \* computeDTW: the first feature sequence
    seq2,      \* computeDTW: the second feature sequence
    dp,        \* computeDTW: the cost matrix
    di,        \* computeDTW: loop index i
    dj,        \* computeDTW: loop index j
    cost,      \* computeDTW: the local cost of the cell computed last
    score,     \* computeDTW: the value returned
    signal,    \* pre_emphasis: the frame, modified in place
    orig,      \* pre_emphasis: the frame as it was passed in
    pre_t,     \* pre_emphasis: how many loop iterations have run
    visited,   \* pre_emphasis: the indices written, in order
    touched,   \* pre_emphasis: the indices read or written
    frame,     \* power_spectrum: the frame
    fft_size,  \* power_spectrum: fft_size
    fft_input, \* power_spectrum: the sequence handed to fft
    power,     \* extractMFCC: power.size()
    inferred,  \* extractMFCC: the fft_size passed to create_mel_filterbanks
    filt_len,  \* extractMFCC: the size of each filter of the filterbank
    num_filters, \* create_mel_filterbanks: num_filters
    mel_fft,   \* create_mel_filterbanks: fft_size
    bin,       \* create_mel_filterbanks: bin[0..num_filters + 1]
    filters,   \* create_mel_filterbanks: filters[m][k]
    mel_m,     \* create_mel_filterbanks: loop index m
    mel_k,     \* create_mel_filterbanks: loop index k
    divisors   \* create_mel_filterbanks: the spans divided by so far

dtwVars == <<seq1, seq2, dp, di, dj, cost, score>>
preVars == <<signal, orig, pre_t, visited, touched>>
powVars == <<frame, fft_size, fft_input, power, inferred, filt_len>>
melVars == <<num_filters, mel_fft, bin, filters, mel_m, mel_k, divisors>>
vars == <<pc, dtwVars, preVars, powVars, melVars>>

\* the variables of the functions that are not running
IdleDTW ==
    /\ seq1 = <<>> /\ seq2 = <<>> /\ dp = <<>> /\ di = 0 /\ dj = 0
    /\ cost = Zero /\ score = Zero
IdlePre ==
    /\ signal = <<>> /\ orig = <<>> /\ pre_t = 0 /\ visited = <<>>
    /\ touched = {}
IdlePow ==
    /\ frame = <<>> /\ fft_size = 0 /\ fft_input = <<>> /\ power = 0
    /\ inferred = 0 /\ filt_len = 0
IdleMel ==
    /\ num_filters = 0 /\ mel_fft = 0 /\ bin = <<>> /\ filters = <<>>
    /\ mel_m = 0 /\ mel_k = 0 /\ divisors = {}

(***************************************************************************)
(* computeDTW as a state machine: one step per cell, then the return.      *)
(***************************************************************************)
InitDTW ==
    /\ pc = "dtw_loop"
    /\ seq1 \in SeqsUpTo(MaxLen)
    /\ seq2 \in SeqsUpTo(MaxLen)
    /\ dp = DpInit(Len(seq1), Len(seq2))
    /\ di = 1
    /\ dj = 1
    /\ cost = Zero
    /\ score = Zero
    /\ IdlePre /\ IdlePow /\ IdleMel

DTWCell ==
    /\ pc = "dtw_loop"
    /\ ~LoopDone(di, Len(seq1), Len(seq2))
    /\ cost' = CellCost(seq1, seq2, di, dj)
    /\ dp' = [dp EXCEPT ![di][dj] = CellValue(dp, cost', di, dj)]
    /\ di' = NextCell(di, dj, Len(seq2))[1]
    /\ dj' = NextCell(di, dj, Len(seq2))[2]
    /\ UNCHANGED <<pc, seq1, seq2, score, preVars, powVars, melVars>>

DTWReturn ==
    /\ pc = "dtw_loop"
    /\ LoopDone(di, Len(seq1), Len(seq2))
    /\ score' = ScoreOf(dp, Len(seq1), Len(seq2))
    /\ pc' = "dtw_done"
    /\ UNCHANGED <<seq1, seq2, dp, di, dj, cost, preVars, powVars, melVars>>

NextDTW == DTWCell \/ DTWReturn

SpecDTW == InitDTW /\ [][NextDTW]_vars

(***************************************************************************)
(* pre_emphasis as a state machine: one step per loop iteration.           *)
(***************************************************************************)
InitPre ==
    /\ pc = "pre_loop"
    /\ \E n \in 1..MaxFrame : orig \in [0..(n - 1) -> Samples]
    /\ signal = orig
    /\ pre_t = 0
    /\ visited = <<>>
    /\ touched = {}
    /\ IdleDTW /\ IdlePow /\ IdleMel

FrameLen(f) == Cardinality(DOMAIN f)

PreStep ==
    /\ pc = "pre_loop"
    /\ pre_t < Len(PreOrder(FrameLen(signal)))
    /\ LET i == PreOrder(FrameLen(signal))[pre_t + 1]
       IN  /\ signal' = PreUpdate(signal, i)
           /\ visited' = Append(visited, i)
           /\ touched' = touched \cup {i, i - 1}
    /\ pre_t' = pre_t + 1
    /\ UNCHANGED <<pc, orig, dtwVars, powVars, melVars>>

PreReturn ==
    /\ pc = "pre_loop"
    /\ pre_t = Len(PreOrder(FrameLen(signal)))
    /\ pc' = "pre_done"
    /\ UNCHANGED <<preVars, dtwVars, powVars, melVars>>

NextPre == PreStep \/ PreReturn

SpecPre == InitPre /\ [][NextPre]_vars

(***************************************************************************)
(* extractMFCC from the call of power_spectrum on: the size of the FFT,    *)
(* of the power spectrum and of the filterbank.  Sample i of the frame is  *)
(* the opaque non-zero value i + 1; fft works in place on fft_input and    *)
(* leaves its size alone.                                                  *)
(***************************************************************************)
InitPow ==
    /\ pc = "ps_grow"
    /\ \E n \in 1..MaxFrameLen : frame = [i \in 0..(n - 1) |-> i + 1]
    /\ fft_size = 1
    /\ fft_input = <<>>
    /\ power = 0
    /\ inferred = 0
    /\ filt_len = 0
    /\ IdleDTW /\ IdlePre /\ IdleMel

\* while (fft_size < n) fft_size <<= 1
PSGrow ==
    /\ pc = "ps_grow"
    /\ fft_size < FrameLen(frame)
    /\ fft_size' = fft_size * 2
    /\ UNCHANGED <<pc, frame, fft_input, power, inferred, filt_len,
                   dtwVars, preVars, melVars>>

\* fft_input is built and handed to fft
PSFft ==
    /\ pc = "ps_grow"
    /\ ~(fft_size < FrameLen(frame))
    /\ fft_input' = PadFrame(frame, FrameLen(frame), fft_size)
    /\ pc' = "ps_power"
    /\ UNCHANGED <<frame, fft_size, power, inferred, filt_len,
                   dtwVars, preVars, melVars>>

\* power is filled and returned to extractMFCC
PSReturn ==
    /\ pc = "ps_power"
    /\ power' = PowerSize(fft_size)
    /\ pc' = "mfcc_filterbank"
    /\ UNCHANGED <<frame, fft_size, fft_input, inferred, filt_len,
                   dtwVars, preVars, melVars>>

\* create_mel_filterbanks(40, power.size() * 2 - 2, SAMPLE_RATE)
MFCCFilterbank ==
    /\ pc = "mfcc_filterbank"
    /\ inferred' = InferFftSize(power)
    /\ filt_len' = FilterSize(inferred')
    /\ pc' = "mfcc_apply"
    /\ UNCHANGED <<frame, fft_size, fft_input, power, dtwVars, preVars, melVars>>

NextPow == PSGrow \/ PSFft \/ PSReturn \/ MFCCFilterbank

SpecPow == InitPow /\ [][NextPow]_vars

(***************************************************************************)
(* create_mel_filterbanks from the loop over the filters on: one step per  *)
(* weight written.                                                         *)
(***************************************************************************)
InitMel ==
    /\ pc = "mel_up"
    /\ num_filters \in 1..MaxFilters
    /\ \E h \in 1..MaxBin : mel_fft = 2 * h
    /\ bin \in BinArrays(num_filters, mel_fft)
    /\ filters = FiltersInit(num_filters, mel_fft)
    /\ mel_m = 1
    /\ mel_k = bin[0]
    /\ divisors = {}
    /\ IdleDTW /\ IdlePre /\ IdlePow

\* for (k = bin[m - 1]; k < bin[m]; k++) filters[m - 1][k] = ...
MelUp ==
    /\ pc = "mel_up"
    /\ mel_k < bin[mel_m]
    /\ filters' = [filters EXCEPT ![mel_m - 1][mel_k] = UpWeight(bin, mel_m, mel_k)]
    /\ divisors' = divisors \cup {UpWeight(bin, mel_m, mel_k).den}
    /\ mel_k' = mel_k + 1
    /\ UNCHANGED <<pc, num_filters, mel_fft, bin, mel_m, dtwVars, preVars, powVars>>

MelUpEnd ==
    /\ pc = "mel_up"
    /\ ~(mel_k < bin[mel_m])
    /\ mel_k' = bin[mel_m]
    /\ pc' = "mel_down"
    /\ UNCHANGED <<num_filters, mel_fft, bin, filters, mel_m, divisors,
                   dtwVars, preVars, powVars>>

\* for (k = bin[m]; k < bin[m + 1]; k++) filters[m - 1][k] = ...
MelDown ==
    /\ pc = "mel_down"
    /\ mel_k < bin[mel_m + 1]
    /\ filters' = [filters EXCEPT ![mel_m - 1][mel_k] = DownWeight(bin, mel_m, mel_k)]
    /\ divisors' = divisors \cup {DownWeight(bin, mel_m, mel_k).den}
    /\ mel_k' = mel_k + 1
    /\ UNCHANGED <<pc, num_filters, mel_fft, bin, mel_m, dtwVars, preVars, powVars>>

\* m++ with m <= num_filters still true
MelNextFilter ==
    /\ pc = "mel_down"
    /\ ~(mel_k < bin[mel_m + 1])
    /\ mel_m < num_filters
    /\ mel_m' = mel_m + 1
    /\ mel_k' = bin[mel_m]
    /\ pc' = "mel_up"
    /\ UNCHANGED <<num_filters, mel_fft, bin, filters, divisors,
                   dtwVars, preVars, powVars>>

MelReturn ==
    /\ pc = "mel_down"
    /\ ~(mel_k < bin[mel_m + 1])
    /\ ~(mel_m < num_filters)
    /\ pc' = "mel_done"
    /\ UNCHANGED <<melVars, dtwVars, preVars, powVars>>

NextMel == MelUp \/ MelUpEnd \/ MelDown \/ MelNextFilter \/ MelReturn

SpecMel == InitMel /\ [][NextMel]_vars

(***************************************************************************)
(* The library: any one of the functions above is called.                  *)
(***************************************************************************)
Init == InitDTW \/ InitPre \/ InitPow \/ InitMel

Next == NextDTW \/ NextPre \/ NextPow \/ NextMel

Spec == Init /\ [][Next]_vars

(***************************************************************************)
(* Properties of computeDTW and cosineSimilarity.                          *)
(***************************************************************************)
DTWDone == pc = "dtw_done"

BothNonEmpty == Len(seq1) >= 1 /\ Len(seq2) >= 1

\* cell (i, j) has been written by the loop
Computed(i, j) ==
    /\ i \in 1..Len(seq1)
    /\ j \in 1..Len(seq2)
    /\ (i < di \/ (i = di /\ j < dj))

\* the cell the loop wrote last
LastCell == IF dj > 1 THEN <<di, dj - 1>> ELSE <<di - 1, Len(seq2)>>

\* every element of v is 0: the vector has zero norm
ZeroNorm(v) == \A n \in 1..Len(v) : v[n] = Zero

\* 2^-22 and 2^-23 as floats
Tol22 == Fin(Pow2(MantBits - 1), -(MantBits - 1) - (MantBits - 2))
Tol23 == Fin(Pow2(MantBits - 1), -(MantBits - 1) - (MantBits - 1))

\* the warping paths from (1, 1) to (i, j) by steps (+1,0), (0,+1), (+1,+1)
RECURSIVE PathsTo(_, _)
PathsTo(i, j) ==
    IF i < 1 \/ j < 1 THEN {}
    ELSE IF i = 1 /\ j = 1 THEN {<< <<1, 1>> >>}
    ELSE {Append(p, <<i, j>>) :
            p \in PathsTo(i - 1, j) \cup PathsTo(i, j - 1) \cup PathsTo(i - 1, j - 1)}

\* the cost of the first n cells of path p, summed along the path
RECURSIVE PathSum(_, _, _)
PathSum(cm, p, n) ==
    IF n = 0 THEN Zero ELSE FAdd(cm[p[n]], PathSum(cm, p, n - 1))

\* the cost of a cell holding vectors a and b, tabulated over Vectors
CostTable ==
    [a \in Vectors |-> [b \in Vectors |-> FSub(One, cosineSimilarity(a, b))]]

CostMatrix ==
    [c \in (1..Len(seq1)) \X (1..Len(seq2)) |->
        CostTable[seq1[c[1]]][seq2[c[2]]]]

PathSums ==
    LET cm == CostMatrix
    IN  {PathSum(cm, p, Len(p)) : p \in PathsTo(Len(seq1), Len(seq2))}

MinPathSum ==
    LET sums == PathSums
    IN  CHOOSE x \in sums : \A y \in sums : FLeq(x, y)

\* C1 as stated: comparing any non-empty sequence with itself leaves cost 0
\* on every diagonal cell and returns the score 1.
C1_Original ==
    (DTWDone /\ seq1 = seq2 /\ Len(seq1) >= 1) =>
        /\ \A n \in 1..Len(seq1) : dp[n][n] = Zero
        /\ score = One

\* C1 (amended): comparing a non-empty sequence of non-zero-norm vectors with
\* itself, each diagonal cell's cosine distance is 0 up to rounding (at most
\* 2^-22 in magnitude), so dp[n][n] <= n * 2^-22 along the diagonal and the
\* returned score is at least 1 - 2^-23.
C1_IdentityUpToRounding ==
    (DTWDone /\ seq1 = seq2 /\ Len(seq1) >= 1
        /\ \A n \in 1..Len(seq1) : ~ZeroNorm(seq1[n])) =>
        /\ \A n \in 1..Len(seq1) :
              /\ FLeq(CellCost(seq1, seq2, n, n), Tol22)
              /\ FLeq(FNeg(Tol22), CellCost(seq1, seq2, n, n))
              /\ FLeq(dp[n][n], FMul(FromInt(n), Tol22))
        /\ FLeq(FSub(One, Tol23), score)

C1_Witness ==
    /\ DTWDone
    /\ seq1 = seq2
    /\ Len(seq1) >= 2
    /\ \A n \in 1..Len(seq1) : ~ZeroNorm(seq1[n])
    /\ dp[1][1] # Zero

\* C2: computeDTW(seq1, seq2) returns the same score as computeDTW(seq2,
\* seq1) whenever the two sequences are not both empty.
C2_Symmetry ==
    (DTWDone /\ Len(seq1) + Len(seq2) > 0) =>
        /\ ~IsNaN(score)
        /\ score = computeDTW(seq2, seq1)

C2_Witness ==
    /\ DTWDone
    /\ Len(seq1) = 1
    /\ Len(seq2) = 2
    /\ seq2[1] # seq2[2]
    /\ seq1[1] # seq2[1]
    /\ IsFin(score)
    /\ score # One

\* C3: for non-empty sequences dp[len1][len2] is the minimum, over the
\* warping paths from (1,1) to (len1,len2), of the cell costs summed along
\* the path, and the score is 1 - dp[len1][len2] / (len1 + len2).
C3_MinOverPaths ==
    (DTWDone /\ BothNonEmpty) =>
        LET best == MinPathSum
        IN  /\ dp[Len(seq1)][Len(seq2)] = best
            /\ score = FSub(One, FDiv(best, FromInt(Len(seq1) + Len(seq2))))

C3_Witness ==
    /\ DTWDone
    /\ Len(seq1) >= 2
    /\ Len(seq2) >= 2
    /\ LET sums == PathSums
       IN  \E x \in sums : x # dp[Len(seq1)][Len(seq2)]

\* C4 as stated: every computed cell dp[i][j] with i, j >= 1 is finite and
\* non-negative, and the returned score never exceeds 1.
C4_NonNegative ==
    /\ \A i \in 1..Len(seq1) : \A j \in 1..Len(seq2) :
          Computed(i, j) => (IsFin(dp[i][j]) /\ FLeq(Zero, dp[i][j]))
    /\ (DTWDone /\ BothNonEmpty) => FLeq(score, One)

\* C5: with exactly one sequence empty the loop writes nothing, the cost read
\* is the untouched boundary cell dp[len1][len2] = +infinity, the divisor is
\* the non-zero length of the other sequence and the score is -infinity (not
\* NaN); the divisor is zero exactly when both sequences are empty.
C5_OneEmpty ==
    /\ (DTWDone /\ (Len(seq1) = 0) # (Len(seq2) = 0)) =>
          /\ dp = DpInit(Len(seq1), Len(seq2))
          /\ dp[Len(seq1)][Len(seq2)] = Inf(1)
          /\ ~IsZero(FromInt(Len(seq1) + Len(seq2)))
          /\ score = Inf(-1)
    /\ DTWDone =>
          (IsZero(FromInt(Len(seq1) + Len(seq2)))
              <=> (Len(seq1) = 0 /\ Len(seq2) = 0))

C5_Witness ==
    /\ DTWDone
    /\ Len(seq1) = 0
    /\ Len(seq2) = 2
    /\ score = Inf(-1)

\* C6: the cost of a cell whose two vectors differ in length, or one of which
\* has zero norm, is exactly 1 (cosineSimilarity returned exactly 0); for
\* every other pair it is 1 - dot / (sqrt(norm1) * sqrt(norm2)); it is never
\* NaN.
C6_CosineCases ==
    (pc = "dtw_loop" /\ Computed(LastCell[1], LastCell[2])) =>
        LET a == seq1[LastCell[1]]
            b == seq2[LastCell[2]]
        IN  /\ ~IsNaN(cost)
            /\ (Len(a) # Len(b) \/ ZeroNorm(a) \/ ZeroNorm(b)) => cost = One
            /\ ~(Len(a) # Len(b) \/ ZeroNorm(a) \/ ZeroNorm(b)) =>
                  cost = FSub(One,
                              FDiv(Accumulate(a, b, Len(a)),
                                   FMul(FSqrt(Accumulate(a, a, Len(a))),
                                        FSqrt(Accumulate(b, b, Len(b))))))

C6_Witness ==
    /\ pc = "dtw_loop"
    /\ Computed(LastCell[1], LastCell[2])
    /\ ZeroNorm(seq1[LastCell[1]])
    /\ seq2[LastCell[2]] = seq1[LastCell[1]]
    /\ cost = One

(***************************************************************************)
(* Properties of create_mel_filterbanks.                                   *)
(***************************************************************************)
MelDone == pc = "mel_done"

\* the weight filter m (1..num_filters) gives to bin k
W(m, k) == filters[m - 1][k]

\* weight w is the number num / den
WeightIs(w, num, den) == w.den # 0 /\ den # 0 /\ w.num * den = num * w.den

\* weights v and w add up to 1
SumIsOne(v, w) ==
    v.den # 0 /\ w.den # 0 /\ v.num * w.den + w.num * v.den = v.den * w.den

NonZero(w) == w.num # 0

Bins == 0..(mel_fft \div 2)

RampsOf(m) ==
    LET left == bin[m - 1]
        center == bin[m]
        right == bin[m + 1]
    IN  /\ \A k \in left..(center - 1) :
              WeightIs(W(m, k), k - left, center - left)
        /\ \A k \in center..(right - 1) :
              WeightIs(W(m, k), right - k, right - center)
        /\ \A k \in Bins : (k < left \/ k >= right) => WeightIs(W(m, k), 0, 1)

\* C8 as stated: every filter is 0 at its left bin, rises linearly to 1 at
\* its center bin, falls linearly towards 0 at its right bin and is 0
\* outside [left, right); no division by a zero span is executed.
C8_Original ==
    MelDone =>
        /\ \A m \in 1..num_filters :
              /\ WeightIs(W(m, bin[m - 1]), 0, 1)
              /\ WeightIs(W(m, bin[m]), 1, 1)
              /\ RampsOf(m)
        /\ 0 \notin divisors

\* C8 (amended): every filter is (k - left) / (center - left) on [left,
\* center), (right - k) / (right - center) on [center, right) and 0 outside
\* [left, right); so it is 0 at its left bin when left < center and 1 at its
\* center bin when center < right (with left = center < right it starts at
\* 1, with center = right it never reaches 1); no division by a zero span
\* is ever executed.
C8_Ramps ==
    /\ MelDone =>
          \A m \in 1..num_filters :
              /\ bin[m - 1] < bin[m] => WeightIs(W(m, bin[m - 1]), 0, 1)
              /\ bin[m] < bin[m + 1] => WeightIs(W(m, bin[m]), 1, 1)
              /\ (bin[m - 1] = bin[m] /\ bin[m] < bin[m + 1]) =>
                    WeightIs(W(m, bin[m - 1]), 1, 1)
              /\ bin[m] = bin[m + 1] => WeightIs(W(m, bin[m]), 0, 1)
              /\ RampsOf(m)
    /\ 0 \notin divisors

C8_Witness ==
    /\ MelDone
    /\ num_filters = 2
    /\ bin[0] = bin[1]
    /\ bin[2] - bin[1] >= 2
    /\ bin[3] = bin[2]
    /\ divisors # {}

(***************************************************************************)
(* Properties of pre_emphasis.                                             *)
(***************************************************************************)
\* C9: on a frame of n >= 1 samples pre_emphasis makes one pass from index
\* n-1 down to 1, leaves frame[i] = orig[i] - 0.95f * orig[i-1] for i in
\* 1..n-1 and frame[0] as it was, and touches no index outside 0..n-1.
C9_PreEmphasis ==
    LET n == FrameLen(orig)
    IN  /\ touched \subseteq 0..(n - 1)
        /\ pc = "pre_done" =>
              /\ DOMAIN signal = 0..(n - 1)
              /\ \A i \in 1..(n - 1) :
                    signal[i] = FSub(orig[i], FMul(Alpha, orig[i - 1]))
              /\ signal[0] = orig[0]
              /\ visited = [t \in 1..(n - 1) |-> n - t]

C9_Witness ==
    /\ pc = "pre_done"
    /\ FrameLen(orig) >= 3
    /\ orig[0] # orig[1]
    /\ \A i \in 1..(FrameLen(orig) - 1) : signal[i] # orig[i]

(***************************************************************************)
(* Properties of power_spectrum and extractMFCC.                           *)
(***************************************************************************)
\* C10: for a frame of n > 1 samples fft is called on a sequence whose length
\* is the smallest power of two >= n, holding the n samples and then zeros;
\* power_spectrum returns fft_size / 2 + 1 values; the FFT size extractMFCC
\* infers, 2 * (power.size() - 1), is the FFT size used, so each filter has
\* as many weights as the power spectrum has bins.
C10_FftSize ==
    LET n == FrameLen(frame)
        size == FrameLen(fft_input)
    IN  n > 1 =>
        /\ pc \in {"ps_power", "mfcc_filterbank", "mfcc_apply"} =>
              /\ size = fft_size
              /\ IsPow2(size)
              /\ size >= n
              /\ \A e \in 0..n : Pow2(e) >= n => size <= Pow2(e)
              /\ \A i \in 0..(size - 1) :
                    fft_input[i] = IF i < n THEN frame[i] ELSE 0
        /\ pc \in {"mfcc_filterbank", "mfcc_apply"} =>
              power = fft_size \div 2 + 1
        /\ pc = "mfcc_apply" =>
              /\ inferred = fft_size
              /\ filt_len = power

C10_Witness ==
    /\ pc = "mfcc_apply"
    /\ FrameLen(frame) = 5
    /\ fft_size = 8
    /\ fft_input[5] = 0
    /\ power = 5
    /\ filt_len = 5

====
